---- MODULE Spec2Model ----
(***************************************************************************)
(* SmartAC server: telemetry ingestion, per-domain append-only logs, the   *)
(* status registry with its inactivity timer, the actuation policy and the *)
(* history query (time-range filter and step downsampling).                *)
(***************************************************************************)
EXTENDS Integers, Sequences, FiniteSets, TLC

VARIABLES
  domains,                  \* population per domain (let domains)
  status,                   \* latest Status per domain (const status: Map)
  detectionsTimeoutHandle,  \* 0 = null, otherwise the id of the last timer set
  timers,                   \* ids of the timers pending in the event loop
  timerSeq,                 \* number of timers created so far
  files,                    \* var/: file name -> sequence of lines
  inflight,                 \* fs.appendFile calls issued and not yet completed
  now,                      \* Date.now(), milliseconds
  request,                  \* the request (or call) handled last
  response,                 \* what it answered
  posted,                   \* number of telemetry posts accepted so far
  previous                  \* at a history query: the request handled just
                            \* before it and its answer, when that was a
                            \* telemetry post for the domain or the same query

vars == <<domains, status, detectionsTimeoutHandle, timers, timerSeq, files,
          inflight, now, request, response, posted, previous>>

----------------------------------------------------------------------------
(* JavaScript numbers: exact rationals n/d (d > 0, lowest terms), NaN and  *)
(* the two infinities; and the other JSON values a count may be.           *)

RECURSIVE Gcd(_, _)
Gcd(a, b) == IF b = 0 THEN a ELSE Gcd(b, a % b)

Abs(n) == IF n < 0 THEN -n ELSE n

Num(n, d) ==
  LET g == Gcd(Abs(n), d)
  IN  [k |-> "num", n |-> n \div g, d |-> d \div g]

NaN == [k |-> "nan", n |-> 0, d |-> 1]
PosInf == [k |-> "inf", n |-> 1, d |-> 1]
NegInf == [k |-> "inf", n |-> -1, d |-> 1]
\* a JSON string that is not numeric text, and JSON null
Str == [k |-> "str", n |-> 0, d |-> 1]
Null == [k |-> "null", n |-> 0, d |-> 1]

\* Number(v), the coercion isNaN, Math.max and Math.min apply
ToNumber(v) ==
  CASE v.k = "str" -> NaN
    [] v.k = "null" -> Num(0, 1)
    [] OTHER -> v

isNaN(v) == ToNumber(v).k = "nan"

\* a < b on numbers; every comparison with NaN is false
Lt(a, b) ==
  IF a.k = "nan" \/ b.k = "nan" THEN FALSE
  ELSE IF a.k = "inf" THEN a.n < 0 /\ ~(b.k = "inf" /\ b.n < 0)
  ELSE IF b.k = "inf" THEN b.n > 0
  ELSE a.n * b.d < b.n * a.d

Gt(a, b) == Lt(b, a)

Le(a, b) == a.k # "nan" /\ b.k # "nan" /\ ~Lt(b, a)

Ge(a, b) == Le(b, a)

MathMax(x, y) ==
  LET a == ToNumber(x)
      b == ToNumber(y)
  IN  IF a.k = "nan" \/ b.k = "nan" THEN NaN
      ELSE IF Lt(a, b) THEN b ELSE a

MathMin(x, y) ==
  LET a == ToNumber(x)
      b == ToNumber(y)
  IN  IF a.k = "nan" \/ b.k = "nan" THEN NaN
      ELSE IF Lt(b, a) THEN b ELSE a

\* a - b
Minus(a, b) ==
  IF a.k = "nan" \/ b.k = "nan" THEN NaN
  ELSE IF a.k = "inf" THEN (IF b.k = "inf" /\ b.n = a.n THEN NaN ELSE a)
  ELSE IF b.k = "inf" THEN (IF b.n > 0 THEN NegInf ELSE PosInf)
  ELSE Num(a.n * b.d - b.n * a.d, a.d * b.d)

\* a / c for a positive integer c
DivBy(a, c) ==
  IF a.k = "num" THEN Num(a.n, a.d * c) ELSE a

----------------------------------------------------------------------------
(* The actuation policy.                                                   *)

maxPopulation == 2

populationToFanPowerUnclamped(population) ==
  IF isNaN(population) THEN NaN
  ELSE DivBy(MathMin(population, Num(maxPopulation, 1)), maxPopulation)

\* the mapping the comment describes: 100 people for full power
populationToFanPowerOfHundred(population) ==
  IF isNaN(population) THEN NaN
  ELSE DivBy(MathMin(MathMax(population, Num(0, 1)), Num(100, 1)), 100)

populationToFanPower(population) ==
  IF isNaN(population) THEN NaN
  ELSE LET clampedPopulation ==
             MathMin(MathMax(population, Num(0, 1)), Num(maxPopulation, 1))
       IN  DivBy(clampedPopulation, maxPopulation)

----------------------------------------------------------------------------
(* Text.  A token is a piece of text as parseFloat and toString see it:    *)
(* numeric text carries the number it spells, any other text spells none.  *)

NumText(x) == [t |-> "numeric", v |-> x, s |-> ""]
Text(s) == [t |-> "text", v |-> NaN, s |-> s]
Absent == [t |-> "absent", v |-> NaN, s |-> ""]

\* Number.prototype.toString
toString(x) == IF x.k = "nan" THEN Text("NaN") ELSE NumText(x)

parseFloat(tok) == IF tok.t = "numeric" THEN tok.v ELSE NaN

\* a query parameter is used when it is present and not the empty string
Truthy(tok) == tok.t # "absent" /\ ~(tok.t = "text" /\ tok.s = "")

\* A log line: the text before the first comma, and the JSON text after it
\* (NoJson: the line holds no comma).
NoJson == [temperature |-> Str, humidity |-> Str, fan_rpm |-> Str,
           population |-> Str]

Line(head, json) == [head |-> head, json |-> json]

TextLine(s) == Line(Text(s), NoJson)

\* line.split(",").length >= 2
HasTwoParts(line) == line.json # NoJson

\* JSON.stringify of a number: NaN and the infinities are written as null
JsonValue(v) == IF v.k \in {"nan", "inf"} THEN Null ELSE v

JSONstringify(temperature, humidity, fan_rpm, population) ==
  [temperature |-> JsonValue(temperature), humidity |-> JsonValue(humidity),
   fan_rpm |-> JsonValue(fan_rpm), population |-> JsonValue(population)]

\* characters the pattern /[^a-z0-9_\-]/gi leaves alone
SafeChars ==
  {"a","b","c","d","e","f","g","h","i","j","k","l","m","n","o","p","q","r",
   "s","t","u","v","w","x","y","z","A","B","C","D","E","F","G","H","I","J",
   "K","L","M","N","O","P","Q","R","S","T","U","V","W","X","Y","Z","0","1",
   "2","3","4","5","6","7","8","9","_","-"}

\* a pattern that leaves the dot alone as well
normalizeKeepingDots(name) ==
  [i \in 1..Len(name) |->
     IF name[i] \in SafeChars \cup {"."} THEN name[i] ELSE "_"]

\* a name is a sequence of characters
normalizeFilenameComponent(name) ==
  [i \in 1..Len(name) |-> IF name[i] \in SafeChars THEN name[i] ELSE "_"]

\* path.resolve(VAR, `domain-${...}.log`), as the file's name in var/
LogFile(domain) == <<"domain-">> \o normalizeFilenameComponent(domain) \o <<".log">>

existsSync(fs, file) == file \in DOMAIN fs

----------------------------------------------------------------------------
(* GET /history/:domain                                                    *)

MsPerSecond == 1000
DefaultStep == 60

HistoryReply(code, type, body) ==
  [op |-> "history", code |-> code, type |-> type, body |-> body]

\* a step rule that takes every line later than the last one taken
IncludeLater(time, lastTime, step) == Gt(time, lastTime)

\* a step rule that takes every line in range
IncludeEveryLine(time, lastTime, step) == TRUE

\* time - lastTime >= step
Include(time, lastTime, step) == Ge(Minus(time, lastTime), step)

\* one pass of the filter loop over a line
ScanLine(acc, line, start, hasStart, end, step) ==
  IF ~HasTwoParts(line) THEN acc
  ELSE
    LET timestamp == parseFloat(line.head)
        time == DivBy(timestamp, MsPerSecond)
    IN  IF hasStart /\ Lt(time, start) THEN acc
        ELSE IF Gt(time, end) THEN acc
        ELSE
          LET include == Include(time, acc.lastTime, step)
          IN  [firstMatchingLine |->
                 IF acc.firstMatchingLine = <<>> THEN <<line>>
                 ELSE acc.firstMatchingLine,
               lastMatchingLine |-> <<line>>,
               result |-> IF include THEN Append(acc.result, line)
                          ELSE acc.result,
               lastTime |-> IF include THEN time ELSE acc.lastTime]

RECURSIVE ScanLines(_, _, _, _, _, _)
ScanLines(acc, lines, start, hasStart, end, step) ==
  IF lines = <<>> THEN acc
  ELSE ScanLines(ScanLine(acc, Head(lines), start, hasStart, end, step),
                 Tail(lines), start, hasStart, end, step)

RECURSIVE Without(_, _)
Without(lines, drop) ==
  IF lines = <<>> THEN <<>>
  ELSE IF <<Head(lines)>> \in drop THEN Without(Tail(lines), drop)
  ELSE <<Head(lines)>> \o Without(Tail(lines), drop)

\* an assembly that adds the two forced lines to all the selected ones
FinalResultKeepingDuplicates(acc) ==
  acc.firstMatchingLine \o acc.result \o acc.lastMatchingLine

\* an assembly that puts the two forced lines after the selected ones
FinalResultForcedLast(acc) ==
  Without(acc.result, {acc.firstMatchingLine, acc.lastMatchingLine})
    \o acc.firstMatchingLine
    \o (IF acc.lastMatchingLine # <<>>
           /\ acc.lastMatchingLine # acc.firstMatchingLine
        THEN acc.lastMatchingLine ELSE <<>>)

\* first matching line, the step-selected lines that are neither the first
\* nor the last matching line, then the last matching line
FinalResult(acc) ==
  acc.firstMatchingLine
    \o Without(acc.result, {acc.firstMatchingLine, acc.lastMatchingLine})
    \o (IF acc.lastMatchingLine # <<>>
           /\ acc.lastMatchingLine # acc.firstMatchingLine
        THEN acc.lastMatchingLine ELSE <<>>)

\* Date.now() / 1000, the end of the range when none is given
DefaultEndRounded(clock) == Num((clock \div 10000) * 10, 1)

DefaultEnd(clock) == DivBy(Num(clock, 1), MsPerSecond)

GetHistory(fs, clock, domain, startParam, endParam, stepParam) ==
  LET hasStart == Truthy(startParam)
      start == parseFloat(startParam)
      end == IF Truthy(endParam) THEN parseFloat(endParam)
             ELSE DefaultEnd(clock)
      step == IF Truthy(stepParam) THEN parseFloat(stepParam)
              ELSE Num(DefaultStep, 1)
      logFile == LogFile(domain)
  IN  IF hasStart /\ isNaN(start)
      THEN HistoryReply(400, "text/html",
                        <<TextLine("Bad Request: invalid start timestamp")>>)
      ELSE IF isNaN(end)
      THEN HistoryReply(400, "text/html",
                        <<TextLine("Bad Request: invalid end timestamp")>>)
      ELSE IF isNaN(step) \/ Le(step, Num(0, 1))
      THEN HistoryReply(400, "text/html",
                        <<TextLine("Bad Request: invalid step (must be > 0)")>>)
      ELSE IF ~existsSync(fs, logFile)
      THEN HistoryReply(200, "application/json", <<TextLine("[]")>>)
      ELSE
        LET acc == ScanLines([firstMatchingLine |-> <<>>,
                              lastMatchingLine |-> <<>>,
                              result |-> <<>>, lastTime |-> NegInf],
                             fs[logFile], start, hasStart, end, step)
        IN  HistoryReply(200, "text/plain", FinalResult(acc))

\* the request, with the clock and the log the handler saw
HistoryRequest(fs, clock, domain, startParam, endParam, stepParam) ==
  [op |-> "history", at |-> clock, domain |-> domain, start |-> startParam,
   end |-> endParam, step |-> stepParam,
   exists |-> existsSync(fs, LogFile(domain)),
   log |-> IF existsSync(fs, LogFile(domain)) THEN fs[LogFile(domain)]
           ELSE <<>>]

----------------------------------------------------------------------------
(* State after the module is loaded: nothing known, no timer, empty var/.  *)

EmptyMap == [x \in {} |-> NaN]

NoRequest == [op |-> "none"]
NoResponse == [op |-> "none"]
NoPrevious == [request |-> NoRequest, response |-> NoResponse]

ServerInit ==
  /\ domains = EmptyMap
  /\ status = EmptyMap
  /\ detectionsTimeoutHandle = 0
  /\ timers = {}
  /\ timerSeq = 0
  /\ files = EmptyMap
  /\ inflight = <<>>
  /\ now = 0
  /\ request = NoRequest
  /\ response = NoResponse
  /\ posted = 0
  /\ previous = NoPrevious

serverVars == <<domains, status, detectionsTimeoutHandle, timers, timerSeq,
                files, inflight, now>>

bookVars == <<posted, previous>>

----------------------------------------------------------------------------
(* The policy on its own: populations drawn from the rationals n/d with    *)
(* |n| <= PopMax and d <= PopDen, NaN and the infinities.                   *)

PopMax == 12
PopDen == 4

PolicyInputs ==
  { Num(n, d) : n \in (-PopMax)..PopMax, d \in 1..PopDen }
    \cup {NaN, PosInf, NegInf}

PolicyInit ==
  /\ domains = EmptyMap
  /\ status = EmptyMap
  /\ detectionsTimeoutHandle = 0
  /\ timers = {}
  /\ timerSeq = 0
  /\ files = EmptyMap
  /\ inflight = <<>>
  /\ now = 0
  /\ request \in { [op |-> "policy", population |-> p] : p \in PolicyInputs }
  /\ response = NoResponse
  /\ posted = 0
  /\ previous = NoPrevious

PolicyCall ==
  /\ request.op = "policy"
  /\ response = NoResponse
  /\ response' = [op |-> "policy",
                  power |-> populationToFanPower(request.population)]
  /\ UNCHANGED <<serverVars, request, bookVars>>

PolicyNext == PolicyCall

SpecPolicy == PolicyInit /\ [][PolicyNext]_vars

----------------------------------------------------------------------------
(* The server.                                                             *)

detectionsTimeout == 10000

\* Object.keys(domains)
Keys(m) == DOMAIN m

\* a set that keeps the value a key already has
PutIfAbsent(m, key, value) ==
  [x \in DOMAIN m \cup {key} |->
     IF x = key /\ key \notin DOMAIN m THEN value ELSE m[x]]

Put(m, key, value) ==
  [x \in DOMAIN m \cup {key} |-> IF x = key THEN value ELSE m[x]]

Restrict(m, keys) == [x \in DOMAIN m \cap keys |-> m[x]]

RemoveAt(q, i) == [j \in 1..(Len(q) - 1) |-> IF j < i THEN q[j] ELSE q[j + 1]]

\* resetDetectionsTimeout(): cancel the timer the handle names, set a new one
TimersAfterResetKeepingOld(pending, handle, id, clock) ==
  pending \cup {[id |-> id, due |-> clock + detectionsTimeout]}

TimersAfterReset(pending, handle, id, clock) ==
  {t \in pending : t.id # handle}
    \cup {[id |-> id, due |-> clock + detectionsTimeout]}

\* status entries of the domains named in the payload
StatusAfterDetectionsKeepingAll(st, counts) == st

StatusAfterDetections(st, counts) == Restrict(st, Keys(counts))

\* the older server's rule: the payload's entries are merged into the map
DomainsAfterDetectionsMerged(old, detections) ==
  [x \in DOMAIN old \cup DOMAIN detections |->
     IF x \in DOMAIN detections THEN detections[x] ELSE old[x]]

\* domains = detections
DomainsAfterDetections(old, detections) == detections

\* a handler that resets the timeout before it looks at the body
PostDetectionsResettingFirst(isJson, body) ==
  /\ request' = [op |-> "detections", isJson |-> isJson, body |-> body,
                 removed |-> IF isJson /\ body.kind = "object"
                             THEN DOMAIN status \ Keys(body.counts) ELSE {},
                 dropped |-> IF isJson /\ body.kind = "object"
                             THEN DOMAIN domains \ Keys(body.counts) ELSE {}]
  /\ timers' = TimersAfterReset(timers, detectionsTimeoutHandle,
                                timerSeq + 1, now)
  /\ detectionsTimeoutHandle' = timerSeq + 1
  /\ timerSeq' = timerSeq + 1
  /\ IF isJson /\ body.kind = "object"
     THEN /\ domains' = DomainsAfterDetections(domains, body.counts)
          /\ status' = StatusAfterDetections(status, body.counts)
          /\ response' = [op |-> "detections", code |-> 200]
     ELSE /\ response' = [op |-> "detections", code |-> 400]
          /\ UNCHANGED <<domains, status>>
  /\ previous' = NoPrevious
  /\ UNCHANGED <<files, inflight, now, posted>>

\* POST /detections
PostDetections(isJson, body) ==
  /\ request' = [op |-> "detections", isJson |-> isJson, body |-> body,
                 removed |-> IF isJson /\ body.kind = "object"
                             THEN DOMAIN status \ Keys(body.counts) ELSE {},
                 dropped |-> IF isJson /\ body.kind = "object"
                             THEN DOMAIN domains \ Keys(body.counts) ELSE {}]
  /\ IF isJson
     THEN IF body.kind # "object"
          THEN /\ response' = [op |-> "detections", code |-> 400]
               /\ UNCHANGED serverVars
          ELSE /\ domains' = DomainsAfterDetections(domains, body.counts)
               /\ status' = StatusAfterDetections(status, body.counts)
               /\ timers' = TimersAfterReset(timers, detectionsTimeoutHandle,
                                             timerSeq + 1, now)
               /\ detectionsTimeoutHandle' = timerSeq + 1
               /\ timerSeq' = timerSeq + 1
               /\ response' = [op |-> "detections", code |-> 200]
               /\ UNCHANGED <<files, inflight, now>>
     ELSE /\ response' = [op |-> "detections", code |-> 400]
          /\ UNCHANGED serverVars
  /\ previous' = NoPrevious
  /\ UNCHANGED posted

\* a clear that removes the logs as well
TimerFireDeletingLogs(t) ==
  /\ t \in timers
  /\ now >= t.due
  /\ domains' = EmptyMap
  /\ status' = EmptyMap
  /\ files' = EmptyMap
  /\ detectionsTimeoutHandle' = 0
  /\ timers' = timers \ {t}
  /\ UNCHANGED <<timerSeq, inflight, now, request, response, bookVars>>

\* a timer that fires before its delay has passed
TimerFireAnyTime(t) ==
  /\ t \in timers
  /\ domains' = EmptyMap
  /\ status' = EmptyMap
  /\ detectionsTimeoutHandle' = 0
  /\ timers' = timers \ {t}
  /\ UNCHANGED <<timerSeq, files, inflight, now, request, response, bookVars>>

\* the callback of the timer set by resetDetectionsTimeout()
TimerFireKeepingStatus(t) ==
  /\ t \in timers
  /\ now >= t.due
  /\ domains' = EmptyMap
  /\ detectionsTimeoutHandle' = 0
  /\ timers' = timers \ {t}
  /\ UNCHANGED <<status, timerSeq, files, inflight, now, request, response,
                 bookVars>>

TimerFire(t) ==
  /\ t \in timers
  /\ now >= t.due
  /\ domains' = EmptyMap
  /\ status' = EmptyMap
  /\ detectionsTimeoutHandle' = 0
  /\ timers' = timers \ {t}
  /\ UNCHANGED <<timerSeq, files, inflight, now, request, response, bookVars>>

\* an unknown domain counted as empty
PopulationOfOrZero(pop, domain) ==
  IF domain \in DOMAIN pop /\ pop[domain].k # "null" THEN pop[domain]
  ELSE Num(0, 1)

\* domains[domain] ?? NaN
PopulationOf(pop, domain) ==
  IF domain \in DOMAIN pop /\ pop[domain].k # "null" THEN pop[domain] ELSE NaN

\* POST /unit/:domain
PostUnit(domain, contentType, body) ==
  LET timestamp == now
  IN
  IF contentType = "application/octet-stream" /\ body.isBuffer
       /\ body.length >= 12
  THEN
    LET temperature == body.temperature
        humidity == body.humidity
        fan_rpm == body.fan_rpm
        population == PopulationOf(domains, domain)
        power == populationToFanPower(population)
        db == LogFile(domain)
        line == Line(toString(Num(timestamp, 1)),
                     JSONstringify(temperature, humidity, fan_rpm, population))
    IN  /\ response' = [op |-> "unit", code |-> 200, power |-> power]
        /\ status' = Put(status, domain,
                         [population |-> population, fan_power |-> power,
                          temperature |-> temperature, humidity |-> humidity,
                          fan_rpm |-> fan_rpm])
        /\ inflight' = Append(inflight, [file |-> db, line |-> line])
        /\ request' = [op |-> "unit", at |-> now, domain |-> domain,
                       contentType |-> contentType,
                       body |-> body, population |-> population,
                       fresh |-> /\ db \notin DOMAIN files
                                 /\ \A i \in 1..Len(inflight) :
                                      inflight[i].file # db]
        /\ posted' = posted + 1
        /\ previous' = NoPrevious
        /\ UNCHANGED <<domains, detectionsTimeoutHandle, timers, timerSeq,
                       files, now>>
  ELSE
    /\ response' = [op |-> "unit", code |-> 400]
    /\ request' = [op |-> "unit", at |-> now, domain |-> domain,
                   contentType |-> contentType,
                   body |-> body, population |-> NaN, fresh |-> FALSE]
    /\ previous' = NoPrevious
    /\ UNCHANGED <<serverVars, posted>>

\* a write that replaces the file's content, as fs.writeFile does
AppendDoneOverwriting(i) ==
  /\ i \in 1..Len(inflight)
  /\ files' = Put(files, inflight[i].file, <<inflight[i].line>>)
  /\ inflight' = RemoveAt(inflight, i)
  /\ UNCHANGED <<domains, status, detectionsTimeoutHandle, timers, timerSeq,
                 now, request, response, bookVars>>

\* fs.appendFile completes: the line is at the end of the file, which is
\* created when it does not exist
AppendDone(i) ==
  /\ i \in 1..Len(inflight)
  /\ LET a == inflight[i]
     IN  files' = Put(files, a.file,
                      IF a.file \in DOMAIN files
                      THEN Append(files[a.file], a.line) ELSE <<a.line>>)
  /\ inflight' = RemoveAt(inflight, i)
  /\ UNCHANGED <<domains, status, detectionsTimeoutHandle, timers, timerSeq,
                 now, request, response, bookVars>>

\* a failed append that fails the request
AppendFailAnswering500(i) ==
  /\ i \in 1..Len(inflight)
  /\ inflight' = RemoveAt(inflight, i)
  /\ response' = [op |-> "unit", code |-> 500]
  /\ UNCHANGED <<domains, status, detectionsTimeoutHandle, timers, timerSeq,
                 files, now, request, bookVars>>

\* fs.appendFile fails: the error is logged
AppendFail(i) ==
  /\ i \in 1..Len(inflight)
  /\ inflight' = RemoveAt(inflight, i)
  /\ UNCHANGED <<domains, status, detectionsTimeoutHandle, timers, timerSeq,
                 files, now, request, response, bookVars>>

\* a record built from the status map first: every domain with an entry
snapshotWithStatus ==
  [domain \in Keys(domains) \cup DOMAIN status |->
     IF domain \in DOMAIN status THEN status[domain]
     ELSE [population |-> domains[domain]]]

\* the record GET /status builds
snapshot ==
  [domain \in Keys(domains) |->
     IF domain \in DOMAIN status THEN status[domain]
     ELSE [population |-> domains[domain]]]

\* res.json(statusRecord)
StatusJson(statusRecord) ==
  [domain \in DOMAIN statusRecord |->
     [f \in DOMAIN statusRecord[domain] |->
        JsonValue(statusRecord[domain][f])]]

\* GET /status
GetStatus ==
  /\ request' = [op |-> "status", at |-> now]
  /\ response' = [op |-> "status", code |-> 200, body |-> StatusJson(snapshot)]
  /\ previous' = NoPrevious
  /\ UNCHANGED <<serverVars, posted>>

\* a query that creates the log it does not find
HistoryCreatingLog(domain, startParam, endParam, stepParam) ==
  /\ request' = HistoryRequest(files, now, domain, startParam, endParam,
                               stepParam)
  /\ response' = GetHistory(files, now, domain, startParam, endParam,
                            stepParam)
  /\ files' = IF existsSync(files, LogFile(domain)) THEN files
              ELSE Put(files, LogFile(domain), <<>>)
  /\ previous' = NoPrevious
  /\ UNCHANGED <<domains, status, detectionsTimeoutHandle, timers, timerSeq,
                 inflight, now, posted>>

\* GET /history/:domain
History(domain, startParam, endParam, stepParam) ==
  /\ request' = HistoryRequest(files, now, domain, startParam, endParam,
                               stepParam)
  /\ response' = GetHistory(files, now, domain, startParam, endParam,
                            stepParam)
  /\ previous' =
       IF \/ /\ request.op = "unit"
             /\ request.domain = domain
          \/ /\ request.op = "history"
             /\ request.domain = domain
             /\ request.start = startParam
             /\ request.end = endParam
             /\ request.step = stepParam
       THEN [request |-> request, response |-> response]
       ELSE NoPrevious
  /\ UNCHANGED <<serverVars, posted>>

\* time passes
Tick ==
  /\ now' = now + 5000
  /\ UNCHANGED <<domains, status, detectionsTimeoutHandle, timers, timerSeq,
                 files, inflight, request, response, bookVars>>

----------------------------------------------------------------------------
(* The server's steps: requests drawn from small sets, the callbacks of    *)
(* the runtime, and the clock.  Timers are set while the clock can still   *)
(* reach their expiry.                                                     *)

MaxTimers == 2
MaxPosts == 2
MaxTicks == 2

Names == {<<"a">>, <<"b", ".">>}

Object(counts) == [kind |-> "object", counts |-> counts]
NullBody == [kind |-> "null", counts |-> EmptyMap]

DetectionRequests ==
  { <<TRUE, Object(EmptyMap)>>,
    <<TRUE, Object([x \in {<<"a">>} |-> Num(1, 1)])>>,
    <<TRUE, Object([x \in Names |->
                      IF x = <<"a">> THEN Num(1, 1) ELSE Num(3, 1)])>>,
    <<TRUE, NullBody>>,
    <<FALSE, Object(EmptyMap)>> }

Payload(isBuffer, length, temperature, humidity, fan_rpm) ==
  [isBuffer |-> isBuffer, length |-> length, temperature |-> temperature,
   humidity |-> humidity, fan_rpm |-> fan_rpm]

Reading == Payload(TRUE, 12, Num(21, 1), Num(40, 1), Num(1200, 1))
\* what a unit whose sensor cannot be read reports
SensorFailure == Payload(TRUE, 12, NaN, NaN, Num(0, 1))
ShortBody == Payload(TRUE, 8, NaN, NaN, NaN)

DetectionsRoute ==
  \E req \in DetectionRequests :
    /\ timerSeq < MaxTimers
    /\ now + detectionsTimeout <= MaxTicks * 5000
    /\ PostDetections(req[1], req[2])

UnitRoute ==
  \E domain \in Names, body \in {Reading, ShortBody} :
    /\ posted < MaxPosts
    /\ PostUnit(domain, "application/octet-stream", body)

StatusRoute == GetStatus

TimeoutCallback == \E t \in timers : TimerFire(t)

AppendCallback == \E i \in 1..Len(inflight) : AppendDone(i) \/ AppendFail(i)

ClockTick == now < MaxTicks * 5000 /\ Tick

Init == ServerInit

\* detections, telemetry, status reads and the inactivity timer
RegistryNext ==
  \/ DetectionsRoute
  \/ UnitRoute
  \/ StatusRoute
  \/ TimeoutCallback
  \/ AppendCallback
  \/ ClockTick

SpecRegistry == Init /\ [][RegistryNext]_vars

\* the registry alone: the appends issued stay in flight
TimerNext ==
  \/ DetectionsRoute
  \/ UnitRoute
  \/ StatusRoute
  \/ TimeoutCallback
  \/ ClockTick

\* the event loop runs every timer that is due, and time passes
FairRegistry ==
  Init /\ [][TimerNext]_vars /\ WF_vars(TimeoutCallback) /\ WF_vars(ClockTick)

LogUnitRoute ==
  \E domain \in Names, body \in {Reading} :
    /\ posted < MaxPosts
    /\ PostUnit(domain, "application/octet-stream", body)

LogHistoryRoute ==
  \E domain \in Names, startParam \in {Absent, NumText(Num(5, 1))},
     endParam \in {Absent, NumText(Num(5, 1))} :
    History(domain, startParam, endParam, Absent)

\* telemetry, its appends, and history queries
LogNext ==
  \/ LogUnitRoute
  \/ AppendCallback
  \/ LogHistoryRoute
  \/ ClockTick

SpecLog == Init /\ [][LogNext]_vars

\* detections posted at any time, also when the clock stops before the
\* timer they set is due
LateDetectionsRoute ==
  \E req \in DetectionRequests :
    /\ timerSeq < MaxTimers
    /\ PostDetections(req[1], req[2])

\* detections posts, the inactivity timer and the clock
ExpiryNext ==
  \/ LateDetectionsRoute
  \/ StatusRoute
  \/ TimeoutCallback
  \/ ClockTick

SpecExpiry == Init /\ [][ExpiryNext]_vars

\* payloads of every shape the two POST routes can be sent: counts that are
\* negative, a string or null; bodies that are longer or shorter than 12
\* bytes, not a buffer, or sent under another content type
LongBody == Payload(TRUE, 16, Num(21, 1), Num(40, 1), Num(1200, 1))
NotABuffer == Payload(FALSE, 12, NaN, NaN, NaN)

AnyDetectionRequests ==
  DetectionRequests \cup
    { <<TRUE, Object([x \in {<<"a">>} |-> Num(-1, 1)])>>,
      <<TRUE, Object([x \in {<<"a">>} |-> Str])>>,
      <<TRUE, Object([x \in {<<"a">>} |-> Null])>> }

AnyDetectionsRoute ==
  \E req \in AnyDetectionRequests :
    /\ timerSeq < MaxTimers
    /\ PostDetections(req[1], req[2])

AnyUnitRoute ==
  \E domain \in Names,
     contentType \in {"application/octet-stream", "application/json"},
     body \in {Reading, ShortBody, LongBody, NotABuffer} :
    /\ posted < MaxPosts
    /\ PostUnit(domain, contentType, body)

PayloadNext ==
  \/ AnyDetectionsRoute
  \/ AnyUnitRoute
  \/ StatusRoute
  \/ AppendCallback

SpecPayloads == Init /\ [][PayloadNext]_vars

\* two domain names that differ in a character outside the safe alphabet:
\* telemetry arrives for the first, history is asked for either
Poster == <<"b", ".">>
Neighbour == <<"b", "_">>

OwnerUnitRoute ==
  /\ posted < MaxPosts
  /\ PostUnit(Poster, "application/octet-stream", Reading)

OwnerHistoryRoute ==
  \E domain \in {Poster, Neighbour}, startParam \in {Absent, NumText(Num(5, 1))} :
    History(domain, startParam, Absent, Absent)

OwnerNext ==
  \/ OwnerUnitRoute
  \/ AppendCallback
  \/ OwnerHistoryRoute
  \/ ClockTick

SpecOwner == Init /\ [][OwnerNext]_vars

\* every kind of step, for one unit: detections, telemetry and its appends,
\* status reads, history queries, the inactivity timer and the clock
StoreDetectionsRoute ==
  /\ timerSeq < MaxTimers
  /\ now + detectionsTimeout <= MaxTicks * 5000
  /\ PostDetections(TRUE, Object([x \in {Poster} |-> Num(1, 1)]))

StoreHistoryRoute == History(Poster, Absent, Absent, Absent)

StoreNext ==
  \/ StoreDetectionsRoute
  \/ OwnerUnitRoute
  \/ AppendCallback
  \/ StatusRoute
  \/ StoreHistoryRoute
  \/ TimeoutCallback
  \/ ClockTick

SpecStore == Init /\ [][StoreNext]_vars

\* The older server (src/server/index.ts): POST /detections merges the
\* payload into the population map entry by entry, POST /unit/:domain keeps
\* no status and stamps its log lines with an ISO date.

\* typeof count === "number" && count >= 0
ValidCount(count) == count.k = "num" /\ count.n >= 0

\* a merge that keeps only the payload's valid entries
MergeEntriesReplacing(old, detections) ==
  [x \in { y \in DOMAIN detections : ValidCount(detections[y]) } |->
     detections[x]]

\* the loop over Object.entries(detections)
MergeEntries(old, detections) ==
  [x \in DOMAIN old \cup { y \in DOMAIN detections : ValidCount(detections[y]) } |->
     IF x \in DOMAIN detections /\ ValidCount(detections[x])
     THEN detections[x] ELSE old[x]]

MergeDetections(isJson, body) ==
  /\ request' = [op |-> "merge", isJson |-> isJson, body |-> body]
  /\ IF isJson /\ body.kind = "object"
     THEN /\ domains' = MergeEntries(domains, body.counts)
          /\ response' = [op |-> "merge", code |-> 200]
     ELSE /\ response' = [op |-> "merge", code |-> 400]
          /\ UNCHANGED domains
  /\ previous' = NoPrevious
  /\ UNCHANGED <<status, detectionsTimeoutHandle, timers, timerSeq, files,
                 inflight, now, posted>>

\* new Date().toISOString(), written with JSON.stringify
IsoStamp == Text("\"2025-12-07T11:30:00.000Z\"")

MergeUnit(domain, contentType, body) ==
  IF contentType = "application/octet-stream" /\ body.isBuffer
       /\ body.length >= 12
  THEN
    LET population == IF domain \in DOMAIN domains THEN domains[domain]
                      ELSE NaN
        line == Line(IsoStamp,
                     JSONstringify(body.temperature, body.humidity,
                                   body.fan_rpm, population))
    IN  /\ response' = [op |-> "unit", code |-> 200,
                        power |-> populationToFanPower(population)]
        /\ inflight' = Append(inflight,
                              [file |-> LogFile(domain), line |-> line])
        /\ request' = [op |-> "unit", at |-> now, domain |-> domain,
                       contentType |-> contentType, body |-> body,
                       population |-> population, fresh |-> FALSE]
        /\ posted' = posted + 1
        /\ previous' = NoPrevious
        /\ UNCHANGED <<domains, status, detectionsTimeoutHandle, timers,
                       timerSeq, files, now>>
  ELSE
    /\ response' = [op |-> "unit", code |-> 400]
    /\ request' = [op |-> "unit", at |-> now, domain |-> domain,
                   contentType |-> contentType, body |-> body,
                   population |-> NaN, fresh |-> FALSE]
    /\ previous' = NoPrevious
    /\ UNCHANGED <<serverVars, posted>>

MergeRequests ==
  AnyDetectionRequests \cup
    { <<TRUE, Object([x \in Names |->
                        IF x = <<"a">> THEN Num(-1, 1) ELSE Num(0, 1)])>>,
      <<TRUE, Object([x \in Names |->
                        IF x = <<"a">> THEN Num(2, 1) ELSE Str])>> }

MergeDetectionsRoute ==
  \E req \in MergeRequests : MergeDetections(req[1], req[2])

MergeUnitRoute ==
  \E domain \in Names, body \in {Reading, ShortBody} :
    /\ posted < MaxPosts
    /\ MergeUnit(domain, "application/octet-stream", body)

MergeNext ==
  \/ MergeDetectionsRoute
  \/ MergeUnitRoute
  \/ AppendCallback

SpecMerge == Init /\ [][MergeNext]_vars

\* The unit (src/firmware/src/main.cpp): the fan power it was last given and
\* the duty it drives the fan with.  A float is modelled by the number it
\* holds; the duty is the 8-bit value analogWrite receives.

PwmFull == 255

\* (uint8_t)(power * 255), for a power in [0, 1]
Duty(power) == ((power.n * PwmFull) \div power.d) % 256

\* a unit that forgets the missing value and keeps 0
setFanPowerStoringZero(power) ==
  IF power.k = "nan"
  THEN [fan_power |-> Num(0, 1), pwm |-> Duty(Num(0, 1)),
        returned |-> Num(0, 1)]
  ELSE LET low == IF Lt(power, Num(0, 1)) THEN Num(0, 1) ELSE power
           clamped == IF Gt(low, Num(1, 1)) THEN Num(1, 1) ELSE low
       IN  [fan_power |-> clamped, pwm |-> Duty(clamped),
            returned |-> clamped]

setFanPower(power) ==
  IF power.k = "nan"
  THEN [fan_power |-> power, pwm |-> Duty(Num(0, 1)),
        returned |-> Num(0, 1)]
  ELSE LET low == IF Lt(power, Num(0, 1)) THEN Num(0, 1) ELSE power
           clamped == IF Gt(low, Num(1, 1)) THEN Num(1, 1) ELSE low
       IN  [fan_power |-> clamped, pwm |-> Duty(clamped),
            returned |-> clamped]

\* float fan_power = 0.0f
UnitInit ==
  /\ domains = EmptyMap
  /\ status = EmptyMap
  /\ detectionsTimeoutHandle = 0
  /\ timers = {}
  /\ timerSeq = 0
  /\ files = EmptyMap
  /\ inflight = <<>>
  /\ now = 0
  /\ request = NoRequest
  /\ response = [op |-> "boot", fan_power |-> Num(0, 1), pwm |-> 0,
                 returned |-> Num(0, 1)]
  /\ posted = 0
  /\ previous = NoPrevious

\* one call of setFanPower, with the power stored before it
FanCall ==
  \E power \in PolicyInputs :
    LET result == setFanPower(power)
    IN  /\ request' = [op |-> "setFanPower", power |-> power,
                       before |-> response.fan_power]
        /\ response' = [op |-> "setFanPower",
                        fan_power |-> result.fan_power,
                        pwm |-> result.pwm, returned |-> result.returned]
        /\ UNCHANGED <<serverVars, bookVars>>

UnitNext == FanCall

SpecUnit == UnitInit /\ [][UnitNext]_vars

\* status reads and history queries, accepted, rejected and for a domain
\* without a log, while a timer is pending and telemetry is being logged
ReadsHistoryRoute ==
  \E domain \in {Poster, <<"a">>}, startParam \in {Absent, Text("abc")} :
    History(domain, startParam, Absent, Absent)

ReadsNext ==
  \/ StoreDetectionsRoute
  \/ OwnerUnitRoute
  \/ AppendCallback
  \/ StatusRoute
  \/ ReadsHistoryRoute

SpecReads == Init /\ [][ReadsNext]_vars

\* telemetry with two different readings, between detections posts of every
\* shape
ReadingsRoute ==
  \E domain \in Names, body \in {Reading, SensorFailure} :
    /\ posted < MaxPosts
    /\ PostUnit(domain, "application/octet-stream", body)

TelemetryNext ==
  \/ AnyDetectionsRoute
  \/ ReadingsRoute
  \/ StatusRoute
  \/ AppendCallback

SpecTelemetry == Init /\ [][TelemetryNext]_vars

Next ==
  \/ RegistryNext \/ LogNext \/ PayloadNext \/ ExpiryNext \/ OwnerNext
  \/ StoreNext \/ TelemetryNext \/ ReadsNext \/ MergeNext \/ UnitNext

Spec == Init /\ [][Next]_vars

----------------------------------------------------------------------------
(* The history query on its own, over every log of at most MaxLines lines  *)
(* drawn from HistoryLines: well-formed lines (two of them 500 ms apart),  *)
(* a line in the older server's format, whose timestamp is a quoted ISO    *)
(* date, and a line without a comma.  Lines may repeat and timestamps need *)
(* not be in order.                                                        *)

MaxLines == 3

JsonA == JSONstringify(Num(21, 1), Num(40, 1), Num(1200, 1), Num(1, 1))
JsonB == JSONstringify(NaN, NaN, Num(0, 1), NaN)

HistoryLines ==
  { Line(toString(Num(0, 1)), JsonA),
    Line(toString(Num(30000, 1)), JsonA),
    Line(toString(Num(30500, 1)), JsonB),
    Line(toString(Num(40000, 1)), JsonA),
    Line(Text("\"2025-12-07T11:30:00.000Z\""), JsonA),
    TextLine("garbage") }

RECURSIVE SeqsUpTo(_, _)
SeqsUpTo(S, n) ==
  IF n = 0 THEN {<<>>}
  ELSE LET shorter == SeqsUpTo(S, n - 1)
       IN  shorter \cup { Append(q, x) : q \in shorter, x \in S }

HistoryDomain == <<"a">>

StartParams ==
  {Absent, Text(""), NumText(Num(0, 1)), NumText(Num(30, 1)), NumText(PosInf),
   Text("abc")}
EndParams ==
  {Absent, NumText(Num(40, 1)), NumText(Num(30, 1)), NumText(PosInf),
   Text("abc")}
StepParams ==
  {Absent, NumText(Num(25, 1)), NumText(Num(1, 1)), NumText(Num(0, 1)),
   NumText(Num(-5, 1)), Text("abc")}

HistoryInit ==
  /\ domains = EmptyMap
  /\ status = EmptyMap
  /\ detectionsTimeoutHandle = 0
  /\ timers = {}
  /\ timerSeq = 0
  /\ files \in {EmptyMap}
       \cup { [f \in {LogFile(HistoryDomain)} |-> log] :
                log \in SeqsUpTo(HistoryLines, MaxLines) }
  /\ inflight = <<>>
  /\ now = 40000
  /\ request = NoRequest
  /\ response = NoResponse
  /\ posted = 0
  /\ previous = NoPrevious

\* GET /history/:domain?start=..&end=..&step=..
HistoryQuery ==
  \E startParam \in StartParams, endParam \in EndParams,
     stepParam \in StepParams :
    /\ request = NoRequest
    /\ request' = HistoryRequest(files, now, HistoryDomain, startParam,
                                 endParam, stepParam)
    /\ response' = GetHistory(files, now, HistoryDomain, startParam, endParam,
                              stepParam)
    /\ UNCHANGED <<serverVars, bookVars>>

HistoryNext == HistoryQuery

SpecHistory == HistoryInit /\ [][HistoryNext]_vars

----------------------------------------------------------------------------
(* The file name of a domain's log, for every domain name of at most       *)
(* MaxName characters drawn from NameChars: safe characters, the path      *)
(* separators, the dot and the space.                                      *)

MaxName == 3

NameChars == {"a", "Z", "0", "_", "-", "/", "\\", ".", " "}

NameInit ==
  /\ domains = EmptyMap
  /\ status = EmptyMap
  /\ detectionsTimeoutHandle = 0
  /\ timers = {}
  /\ timerSeq = 0
  /\ files = EmptyMap
  /\ inflight = <<>>
  /\ now = 0
  /\ request \in { [op |-> "name", name |-> n] :
                     n \in SeqsUpTo(NameChars, MaxName) }
  /\ response = NoResponse
  /\ posted = 0
  /\ previous = NoPrevious

\* the log path POST /unit/:domain and GET /history/:domain derive
NameCall ==
  /\ request.op = "name"
  /\ response = NoResponse
  /\ response' = [op |-> "name",
                  normalized |-> normalizeFilenameComponent(request.name),
                  file |-> LogFile(request.name)]
  /\ UNCHANGED <<serverVars, request, bookVars>>

NameNext == NameCall

SpecNames == NameInit /\ [][NameNext]_vars

----------------------------------------------------------------------------
(* What the claims say of a history query, stated on the request, the log  *)
(* and the answer.                                                         *)

ReqHasStart == request.start.t # "absent" /\ request.start # Text("")
ReqStart == request.start.v
ReqEnd ==
  IF request.end.t = "absent" \/ request.end = Text("")
  THEN [k |-> "num", n |-> request.at, d |-> 1000]
  ELSE request.end.v
ReqStep ==
  IF request.step.t = "absent" \/ request.step = Text("")
  THEN Num(60, 1) ELSE request.step.v

ReqLog == request.log

\* the line starts with a timestamp that is a number
Parseable(line) ==
  /\ line.json # NoJson
  /\ line.head.t = "numeric"
  /\ line.head.v.k = "num"

\* milliseconds ms are at or after s seconds / at or before s seconds
MsAtOrAfter(ms, s) ==
  \/ s.k = "inf" /\ s.n < 0
  \/ s.k = "num" /\ ms.n * s.d >= s.n * 1000 * ms.d
MsAtOrBefore(ms, s) ==
  \/ s.k = "inf" /\ s.n > 0
  \/ s.k = "num" /\ ms.n * s.d <= s.n * 1000 * ms.d

InRange(line) ==
  /\ Parseable(line)
  /\ MsAtOrBefore(line.head.v, ReqEnd)
  /\ ReqHasStart => MsAtOrAfter(line.head.v, ReqStart)

Matching == SelectSeq(ReqLog, InRange)

Answered == request.op = "history" /\ response.code = 200

\* C2: when at least one line matches the time range, the output starts
\* with the first matching line and ends with the last matching line, in
\* file order, whatever the step.
C2_FirstAndLast ==
  (Answered /\ Matching # <<>>) =>
    /\ response.body # <<>>
    /\ response.body[1] = Matching[1]
    /\ response.body[Len(response.body)] = Matching[Len(Matching)]

\* C3: every returned line has a timestamp at or before end and, when start
\* is supplied, at or after start.
C3_OnlyInRange ==
  (Answered /\ response.type = "text/plain") =>
    \A i \in 1..Len(response.body) : InRange(response.body[i])

\* C4: a line whose leading timestamp is not a number never appears in the
\* output, and never makes the query fail.
C4_MalformedSkipped ==
  request.op = "history" =>
    /\ response.code # 500
    /\ (response.code = 200 /\ response.type = "text/plain") =>
         \A i \in 1..Len(response.body) : Parseable(response.body[i])

\* C5: a query for a domain without a log file succeeds with empty output,
\* the output of a query on a log in which no line matches.
C5_NoLogIsEmpty ==
  (request.op = "history" /\ ~request.exists /\ response.code # 400) =>
    /\ response.code = 200
    /\ response.body = <<>>

\* C6: the query is rejected as a client error exactly when step is not a
\* number greater than 0 or a supplied start or end is not a finite number.
Finite(x) == x.k = "num"
C6_Validation ==
  request.op = "history" =>
    (response.code = 400 <=>
       \/ ~(ReqStep.k \in {"num", "inf"} /\ Lt(Num(0, 1), ReqStep))
       \/ (ReqHasStart /\ ~Finite(ReqStart))
       \/ (request.end.t # "absent" /\ request.end # Text("")
             /\ ~Finite(request.end.v)))

----------------------------------------------------------------------------
(* What the claims say of the running server.                              *)

\* C7: the same history query (domain, start, end, step) issued twice with
\* no append to the domain's log in between is answered identically, also
\* when the clock has advanced in between.
C7_Idempotent ==
  (/\ request.op = "history"
   /\ previous.request.op = "history"
   /\ previous.request.exists = request.exists
   /\ previous.request.log = request.log) =>
    response = previous.response

C7_Witness ==
  /\ request.op = "history"
  /\ previous.request.op = "history"
  /\ previous.request.log = request.log
  /\ previous.request.at < request.at
  /\ request.end = Absent
  /\ response.code = 200
  /\ response.type = "text/plain"
  /\ response.body # <<>>
  /\ response = previous.response

\* the value v as a JSON document carries it (an unknown value is null)
Decoded(v) == IF v.k = "nan" THEN Null ELSE v

PostBefore == previous.request

\* the query's range covers the time of the post before it
CoversPost ==
  LET ms == [k |-> "num", n |-> PostBefore.at, d |-> 1]
  IN  /\ response.code # 400
      /\ MsAtOrBefore(ms, ReqEnd)
      /\ ReqHasStart => MsAtOrAfter(ms, ReqStart)

\* C8: for a domain with no earlier log lines, a telemetry post followed at
\* once by a history query whose range covers the post time returns exactly
\* one line, which decodes to the posted temperature, humidity and fan_rpm
\* and to the population the domain had at post time.
C8_RoundTrip ==
  (/\ request.op = "history"
   /\ PostBefore.op = "unit"
   /\ previous.response.code = 200
   /\ PostBefore.fresh
   /\ CoversPost) =>
    /\ response.code = 200
    /\ Len(response.body) = 1
    /\ response.body[1].json =
         [temperature |-> Decoded(PostBefore.body.temperature),
          humidity |-> Decoded(PostBefore.body.humidity),
          fan_rpm |-> Decoded(PostBefore.body.fan_rpm),
          population |-> Decoded(PostBefore.population)]

\* C9: once a detections post is accepted and no further one arrives, the
\* inactivity timer fires; the step that fires it empties the population
\* map and the status map together; and while no timer is pending (from
\* the clear to the next detections post) the snapshot is empty.
C9_Eviction ==
  /\ (timers # {}) ~> (timers = {} /\ domains = EmptyMap /\ status = EmptyMap)
  /\ [][(timers # {} /\ timers' = {}) =>
          (domains' = EmptyMap /\ status' = EmptyMap)]_vars
  /\ [](timers = {} => snapshot = EmptyMap)

C9_Witness ==
  /\ timerSeq > 0
  /\ timers = {}
  /\ DOMAIN status # {}
  /\ request.op = "status"
  /\ response.body = EmptyMap

\* C10: after an accepted detections post, and until the next request, no
\* status entry exists for a domain absent from the payload, and no such
\* domain is listed by the snapshot.
C10_AbsentRemoved ==
  (request.op = "detections" /\ response.code = 200) =>
    /\ DOMAIN status \subseteq Keys(request.body.counts)
    /\ DOMAIN snapshot \subseteq Keys(request.body.counts)

C10_Witness ==
  /\ request.op = "detections"
  /\ response.code = 200
  /\ request.removed # {}
  /\ timers # {}
  /\ domains # EmptyMap

\* C11: the step of an accepted detections post (the only step that sets a
\* new inactivity timer) leaves the population map equal to the payload:
\* the same domains with the same counts, and no domain that was present
\* before and is absent from the payload.
C11_WholesaleReplace ==
  [][(timerSeq' # timerSeq) =>
       /\ request'.op = "detections"
       /\ response'.code = 200
       /\ DOMAIN domains' = Keys(request'.body.counts)
       /\ \A d \in DOMAIN domains' : domains'[d] = request'.body.counts[d]
       /\ \A d \in DOMAIN domains \ Keys(request'.body.counts) :
            d \notin DOMAIN domains']_vars

C11_Witness ==
  /\ request.op = "detections"
  /\ response.code = 200
  /\ request.dropped # {}
  /\ request.body.counts # EmptyMap
  /\ domains = request.body.counts

\* C12: every value held in the population map is a non-negative number
\* (a detections payload with a negative or non-numeric count is rejected).
C12_CountsValid ==
  \A d \in DOMAIN domains : domains[d].k = "num" /\ domains[d].n >= 0

\* a status entry as it is read in the JSON answer
Emitted(entry) == [f \in DOMAIN entry |-> JsonValue(entry[f])]

C14_PopulationCurrent ==
  (request.op = "detections" /\ response.code = 200) =>
    \A d \in DOMAIN snapshot :
      snapshot[d].population = request.body.counts[d]

\* the request is a telemetry post with a binary body of 12 bytes
WellFormedPost(req) ==
  /\ req.op = "unit"
  /\ req.contentType = "application/octet-stream"
  /\ req.body.isBuffer
  /\ req.body.length = 12

\* the step handles a telemetry post
UnitStep == request'.op = "unit" /\ (posted' # posted \/ request' # request)

\* C15: a well-formed telemetry post for a domain absent from the
\* population map succeeds: the answer is 200 with fan power NaN, the
\* domain's status entry has population NaN, and one append is issued to the
\* domain's log whose record has an unknown (null) population.
C15_UnknownDomain ==
  [][(UnitStep /\ WellFormedPost(request')
        /\ request'.domain \notin DOMAIN domains) =>
       /\ response'.code = 200
       /\ response'.power = NaN
       /\ request'.domain \in DOMAIN status'
       /\ status'[request'.domain].population = NaN
       /\ status'[request'.domain].fan_power = NaN
       /\ Len(inflight') = Len(inflight) + 1
       /\ inflight'[Len(inflight')].file = LogFile(request'.domain)
       /\ inflight'[Len(inflight')].line.json.population = Null]_vars

C15_Witness ==
  /\ WellFormedPost(request)
  /\ request.domain \notin DOMAIN domains
  /\ domains # EmptyMap
  /\ response.code = 200
  /\ response.power = NaN
  /\ status[request.domain].population = NaN
  /\ LogFile(request.domain) \in DOMAIN files
  /\ files[LogFile(request.domain)][1].json.population = Null

\* C16: a telemetry post whose payload is not a binary body of exactly 12
\* bytes is rejected, and the rejected post issues no append, writes no log
\* and changes no status entry.
C16_OnlyTwelveBytes ==
  [][(UnitStep /\ ~WellFormedPost(request')) =>
       /\ response'.code = 400
       /\ inflight' = inflight
       /\ files' = files
       /\ status' = status]_vars

\* C17: a well-formed telemetry post is answered with the fan power of the
\* domain's population and writes the domain's status entry in the step that
\* issues the append; the step in which an append ends, written or failed,
\* changes neither the answer nor any status entry; and a failed append
\* leaves every log as it was.
C17_BestEffortLog ==
  /\ [][(UnitStep /\ WellFormedPost(request')) =>
          /\ response'.code = 200
          /\ response'.power = status'[request'.domain].fan_power
          /\ status'[request'.domain].population = request'.population
          /\ Len(inflight') = Len(inflight) + 1]_vars
  /\ [][(Len(inflight') < Len(inflight)) =>
          /\ response' = response
          /\ status' = status
          /\ domains' = domains
          /\ \/ files' = files
             \/ \E i \in 1..Len(inflight) :
                  LET a == inflight[i]
                  IN  /\ a.file \in DOMAIN files'
                      /\ files'[a.file][Len(files'[a.file])] = a.line]_vars

C17_Witness ==
  /\ WellFormedPost(request)
  /\ response.code = 200
  /\ response.power = Num(1, 2)
  /\ posted = 1
  /\ inflight = <<>>
  /\ files = EmptyMap
  /\ status[request.domain].fan_power = Num(1, 2)

\* letters, digits, '_' and '-'
Letters ==
  {"a","b","c","d","e","f","g","h","i","j","k","l","m","n","o","p","q","r",
   "s","t","u","v","w","x","y","z","A","B","C","D","E","F","G","H","I","J",
   "K","L","M","N","O","P","Q","R","S","T","U","V","W","X","Y","Z"}
Digits == {"0","1","2","3","4","5","6","7","8","9"}

\* C18: normalizeFilenameComponent maps a name to a string of the same
\* length made of letters, digits, '_' and '-' only: each such character is
\* kept and every other one is replaced by '_'; a safe name is unchanged and
\* normalizing twice is normalizing once; the log's file name has no path
\* separator and no dot outside its ".log" ending, so it names a file
\* directly inside the data directory.
C18_SafeFileName ==
  response.op = "name" =>
    LET name == request.name
        out == response.normalized
    IN  /\ Len(out) = Len(name)
        /\ \A i \in 1..Len(name) :
             /\ out[i] \in Letters \cup Digits \cup {"_", "-"}
             /\ name[i] \in Letters \cup Digits \cup {"_", "-"} =>
                  out[i] = name[i]
             /\ name[i] \notin Letters \cup Digits \cup {"_", "-"} =>
                  out[i] = "_"
        /\ normalizeFilenameComponent(out) = out
        /\ Len(response.file) = Len(name) + 2
        /\ response.file[1] = "domain-"
        /\ response.file[Len(response.file)] = ".log"
        /\ \A i \in 2..(Len(response.file) - 1) :
             response.file[i] \notin {"/", "\\", "."}

C18_Witness ==
  /\ response.op = "name"
  /\ request.name = <<".", ".", "/">>
  /\ response.normalized = <<"_", "_", "_">>

\* the timestamps of two lines are at least s seconds apart, in file order
Apart(first, second, s) ==
  /\ s.k = "num"
  /\ (second.head.v.n * first.head.v.d - first.head.v.n * second.head.v.d)
       * s.d >= s.n * 1000 * first.head.v.d * second.head.v.d

\* positions of the answer whose line and the next one both parse
Pairs(n) ==
  { i \in 1..n : /\ i + 1 <= Len(response.body)
                 /\ Parseable(response.body[i])
                 /\ Parseable(response.body[i + 1]) }

\* C19 as stated: in every history answer any two consecutive returned
\* data points are at least `step` seconds apart.
C19_StepApart ==
  (Answered /\ request.exists) =>
    \A i \in Pairs(Len(response.body) - 1) :
      Apart(response.body[i], response.body[i + 1], ReqStep)

\* C19, amended: in every history answer any two consecutive returned data
\* points are at least `step` seconds apart, except that the last returned
\* line, which is always the last matching line, may follow its predecessor
\* more closely.
C19_StepApartButLast ==
  (Answered /\ request.exists) =>
    \A i \in Pairs(Len(response.body) - 2) :
      Apart(response.body[i], response.body[i + 1], ReqStep)

C19_Witness ==
  /\ Answered
  /\ request.exists
  /\ Len(response.body) = 3
  /\ \A i \in 1..3 : Parseable(response.body[i])
  /\ Apart(response.body[1], response.body[2], ReqStep)
  /\ ~Apart(response.body[2], response.body[3], ReqStep)

\* r is min(p, 2) / 2 for a number p
HalfOfMin(p, r) ==
  /\ p.k = "num"
  /\ r.k = "num"
  /\ IF p.n >= 2 * p.d THEN r = Num(1, 1)
     ELSE r.n * 2 * p.d = p.n * r.d

\* r lies in 0.0-1.0
InUnit(r) == r.k = "num" /\ 0 <= r.n /\ r.n <= r.d

C21_OneTimer ==
  /\ [](/\ Cardinality(timers) <= 1
        /\ \A t \in timers : t.id = detectionsTimeoutHandle)
  /\ [][(timerSeq' # timerSeq) =>
          (Cardinality(timers') = 1 /\ \A t \in timers' : t.id = timerSeq')]_vars
  /\ [][(timers' # timers /\ timerSeq' = timerSeq) => timers' = {}]_vars

C21_Witness ==
  /\ timerSeq = 2
  /\ Cardinality(timers) = 1
  /\ \A t \in timers : t.id = 2
  /\ request.op = "detections"

\* a step that is not a detections post and in which a pending timer goes,
\* or the population map or the status map loses a domain
ClearStep ==
  /\ timerSeq' = timerSeq
  /\ \/ timers' # timers
     \/ DOMAIN domains' # DOMAIN domains
     \/ ~(DOMAIN status \subseteq DOMAIN status')

\* C22: the population map and the status map are cleared only by the timer
\* of the most recent accepted detections post, and only once the full
\* timeout has passed since that post (the timer is due at the time of the
\* post plus the timeout); a timer superseded by a later post never fires,
\* so while the latest timer is pending the maps are not cleared.
C22_NoStaleClear ==
  /\ [][ClearStep =>
          \E t \in timers :
            /\ t.id = timerSeq
            /\ t.id = detectionsTimeoutHandle
            /\ now >= t.due
            /\ timers' = {}]_vars
  /\ [](\A t \in timers : t.id = timerSeq)

C22_Witness ==
  /\ timerSeq = 2
  /\ \E t \in timers : t.id = 2 /\ t.due > now
  /\ now >= detectionsTimeout
  /\ domains # EmptyMap
  /\ request.op = "status"
  /\ response.body # EmptyMap

\* out can be read off lines from left to right, skipping lines
RECURSIVE IsSubsequence(_, _)
IsSubsequence(out, lines) ==
  IF out = <<>> THEN TRUE
  ELSE IF lines = <<>> THEN FALSE
  ELSE IF Head(out) = Head(lines)
       THEN IsSubsequence(Tail(out), Tail(lines))
       ELSE IsSubsequence(out, Tail(lines))

\* C23: the answer of a history query on an existing log is a subsequence
\* of the log's lines: each line of the answer is a line of the log as it
\* stands there, and the lines keep the order they have in the file, also
\* when the timestamps in the file are not in order.
C23_Subsequence ==
  (Answered /\ request.exists) => IsSubsequence(response.body, ReqLog)

C23_Witness ==
  /\ Answered
  /\ request.exists
  /\ Len(response.body) = 3
  /\ response.body = ReqLog
  /\ \A i \in 1..3 : Parseable(ReqLog[i])
  /\ ReqLog[3].head.v.n < ReqLog[2].head.v.n

\* the number of lines in all logs
RECURSIVE LinesIn(_, _)
LinesIn(fs, names) ==
  IF names = {} THEN 0
  ELSE LET f == CHOOSE x \in names : TRUE
       IN  Len(fs[f]) + LinesIn(fs, names \ {f})

\* the log f after the step is the log before it with line added at its end
Appended(f, line) ==
  /\ f \in DOMAIN files'
  /\ files'[f] = (IF f \in DOMAIN files THEN files[f] ELSE <<>>) \o <<line>>
  /\ DOMAIN files' = DOMAIN files \cup {f}
  /\ \A g \in DOMAIN files \ {f} : files'[g] = files[g]

LinesOf(q) == { q[i] : i \in 1..Len(q) }

\* the step rule over lines in file order: a line is selected when no line
\* was selected before it or it is at least s seconds after the last one
\* selected
RECURSIVE Selected(_, _, _, _)
Selected(lines, hasLast, lastIncluded, s) ==
  IF lines = <<>> THEN <<>>
  ELSE IF ~hasLast \/ Apart(lastIncluded, Head(lines), s)
       THEN <<Head(lines)>> \o Selected(Tail(lines), TRUE, Head(lines), s)
       ELSE Selected(Tail(lines), hasLast, lastIncluded, s)

\* C25: the answer of a history query holds exactly the first matching
\* line, the lines the step rule selects among the matching lines scanned
\* in file order (time - lastIncludedTime >= step, starting from minus
\* infinity), and the last matching line, and no other line.
C25_ExactLines ==
  (Answered /\ request.exists) =>
    LinesOf(response.body) =
      IF Matching = <<>> THEN {}
      ELSE {Matching[1], Matching[Len(Matching)]}
             \cup LinesOf(Selected(Matching, FALSE, Matching[1], ReqStep))

\* C26: in the answer of a history query every two consecutive lines
\* before the final pair are at least `step` seconds apart (compared when
\* both timestamps parse); when the final pair is closer than `step`, its
\* second line is the last line of the log in the time range, the one that
\* is returned whatever the step.
C26_OnlyLastGapSmaller ==
  (Answered /\ request.exists) =>
    LET out == response.body
        n == Len(response.body)
    IN  /\ \A i \in 1..(n - 2) :
             (Parseable(out[i]) /\ Parseable(out[i + 1])) =>
               Apart(out[i], out[i + 1], ReqStep)
        /\ (/\ n >= 2
            /\ Parseable(out[n - 1])
            /\ Parseable(out[n])
            /\ ~Apart(out[n - 1], out[n], ReqStep)) =>
             /\ Matching # <<>>
             /\ out[n] = Matching[Len(Matching)]

C26_Witness ==
  /\ Answered
  /\ request.step = NumText(Num(25, 1))
  /\ Len(response.body) = 3
  /\ response.body[1].head = toString(Num(0, 1))
  /\ response.body[2].head = toString(Num(30000, 1))
  /\ response.body[3].head = toString(Num(40000, 1))

\* every line of the log that has a comma starts with a number
TimestampsParse ==
  \A i \in 1..Len(ReqLog) : HasTwoParts(ReqLog[i]) => Parseable(ReqLog[i])

\* C27: no line occurs twice in the answer of a history query, also when
\* the step rule selects the first or the last matching line; when one line
\* of a log whose timestamps parse matches, the answer is that line, once.
C27_NoDuplicates ==
  (Answered /\ request.exists) =>
    /\ \A i, j \in 1..Len(response.body) :
         i # j => response.body[i] # response.body[j]
    /\ (Len(Matching) = 1 /\ TimestampsParse) => response.body = Matching

C27_Witness ==
  /\ Answered
  /\ Len(ReqLog) = 2
  /\ response.body = ReqLog
  /\ Parseable(ReqLog[1])
  /\ Parseable(ReqLog[2])
  /\ Apart(ReqLog[1], ReqLog[2], ReqStep)

\* C28: telemetry posted for one domain name adds no line to the log a
\* history query for another domain name reads: while telemetry has only
\* been posted for Poster, a history query for any other name finds no log
\* line.
C28_OwnLog ==
  (request.op = "history" /\ request.domain # Poster) =>
    (request.log = <<>> /\ ~request.exists)

\* q starts with p
IsPrefix(p, q) ==
  /\ Len(p) <= Len(q)
  /\ \A i \in 1..Len(p) : q[i] = p[i]

\* C29: in every step every log keeps its lines: the log after the step
\* starts with the log before it, and no log is removed; the logs change
\* only in a step that completes an append, never in a detections post, a
\* timeout, a status read, a history query or the handling of a post.
C29_AppendOnly ==
  /\ [][\A f \in DOMAIN files :
          f \in DOMAIN files' /\ IsPrefix(files[f], files'[f])]_vars
  /\ [][(files' # files) =>
          /\ Len(inflight') = Len(inflight) - 1
          /\ UNCHANGED <<domains, status, timers, request, response>>]_vars

C29_Witness ==
  /\ timerSeq > 0
  /\ timers = {}
  /\ domains = EmptyMap
  /\ status = EmptyMap
  /\ request.op = "history"
  /\ Len(request.log) = 2
  /\ response.body # <<>>

\* C30: in every log the timestamps are non-decreasing in file order: the
\* lines of a domain's log are in the order in which its posts were handled.
C30_LogInPostOrder ==
  \A f \in DOMAIN files :
    \A i, j \in 1..Len(files[f]) :
      i < j => files[f][i].head.v.n <= files[f][j].head.v.n

\* the fan power of a population as it is held: NaN for what is not a
\* number, else the population cut to 0..2 and halved
PowerOf(p, r) ==
  IF p.k = "num"
  THEN IF p.n <= 0 THEN r = Num(0, 1) ELSE HalfOfMin(p, r)
  ELSE p.k \in {"nan", "str"} /\ r = NaN

\* the population a telemetry post finds for a domain
Held(d) ==
  IF d \in DOMAIN domains /\ domains[d] # Null THEN domains[d] ELSE NaN

\* C31: a telemetry post uses one population value, the one held for the
\* domain when it is handled: the fan power answered, the population and
\* fan_power of the status entry and the population of the log line all
\* come from it, and the entry holds the post's temperature, humidity and
\* fan_rpm; no other step writes or changes a status entry.  So every
\* status entry has fan_power = populationToFanPower(population) and the
\* readings of the latest telemetry post for its domain.
C31_OnePopulationRead ==
  /\ [][(UnitStep /\ response'.code = 200) =>
          LET d == request'.domain
              p == Held(d)
          IN  /\ PowerOf(p, response'.power)
              /\ status'[d] =
                   [population |-> p, fan_power |-> response'.power,
                    temperature |-> request'.body.temperature,
                    humidity |-> request'.body.humidity,
                    fan_rpm |-> request'.body.fan_rpm]
              /\ inflight'[Len(inflight')].line.json.population =
                   JsonValue(p)
              /\ \A e \in DOMAIN status' \ {d} :
                   e \in DOMAIN status /\ status'[e] = status[e]]_vars
  /\ [][~(UnitStep /\ response'.code = 200) =>
          \A e \in DOMAIN status' :
            e \in DOMAIN status /\ status'[e] = status[e]]_vars
  /\ [](\A d \in DOMAIN status :
          PowerOf(status[d].population, status[d].fan_power))

C31_Witness ==
  /\ request.op = "unit"
  /\ posted = 2
  /\ Len(inflight) = 2
  /\ inflight[1].file = inflight[2].file
  /\ inflight[1].line.json.temperature = Num(21, 1)
  /\ inflight[1].line.json.population = Null
  /\ inflight[2].line.json.temperature = Null
  /\ inflight[2].line.json.population = Num(1, 1)
  /\ status[request.domain].temperature = NaN
  /\ status[request.domain].population = Num(1, 1)
  /\ status[request.domain].fan_power = Num(1, 2)

\* the step handles a detections post that is rejected
RejectedDetectionsStep ==
  /\ request'.op = "detections"
  /\ response'.op = "detections"
  /\ response'.code = 400
  /\ (request' # request \/ response' # response)

\* C32: the step of a rejected detections post (the body is not JSON, or is
\* not an object) leaves the population map, the status map and the
\* inactivity timer as they were: no domain goes and no timer is set,
\* reset or cancelled.
C32_RejectedDetections ==
  /\ [][RejectedDetectionsStep =>
          /\ domains' = domains
          /\ status' = status
          /\ timers' = timers
          /\ detectionsTimeoutHandle' = detectionsTimeoutHandle
          /\ timerSeq' = timerSeq]_vars
  /\ []((request.op = "detections"
           /\ (~request.isJson \/ request.body.kind # "object")) =>
          response.code = 400)

C32_Witness ==
  /\ request.op = "detections"
  /\ response.code = 400
  /\ request.body = NullBody
  /\ timers # {}
  /\ domains # EmptyMap
  /\ status # EmptyMap

\* the domain names in use
DomainNames == Names \cup {Poster, Neighbour}

\* C33: the step of an accepted telemetry post changes the status entry of
\* its own domain and issues one append to the log of its own domain, which
\* is the log of no other domain name; it leaves the population map, every
\* other status entry, every log and the inactivity timer as they were.
C33_TelemetryFrame ==
  [][(UnitStep /\ response'.code = 200) =>
       LET d == request'.domain
       IN  /\ domains' = domains
           /\ timers' = timers
           /\ detectionsTimeoutHandle' = detectionsTimeoutHandle
           /\ timerSeq' = timerSeq
           /\ files' = files
           /\ DOMAIN status' = DOMAIN status \cup {d}
           /\ \A e \in DOMAIN status \ {d} : status'[e] = status[e]
           /\ Len(inflight') = Len(inflight) + 1
           /\ \A i \in 1..Len(inflight) : inflight'[i] = inflight[i]
           /\ \A e \in DomainNames \ {d} :
                inflight'[Len(inflight')].file # LogFile(e)]_vars

\* the step handles a status read or a history query
ReadStep ==
  /\ request'.op \in {"status", "history"}
  /\ response'.op = request'.op
  /\ (request' # request \/ response' # response)

\* C34: the step of a status read or of a history query, answered or
\* rejected, leaves the population map, the status map, the inactivity
\* timer, every log and every append in flight as they were; a query for a
\* domain without a log creates none.
C34_ReadOnly ==
  [][ReadStep =>
       /\ domains' = domains
       /\ status' = status
       /\ timers' = timers
       /\ detectionsTimeoutHandle' = detectionsTimeoutHandle
       /\ timerSeq' = timerSeq
       /\ files' = files
       /\ inflight' = inflight]_vars

C34_Witness ==
  /\ request.op = "history"
  /\ request.start = Absent
  /\ ~request.exists
  /\ LogFile(request.domain) \notin DOMAIN files
  /\ files # EmptyMap
  /\ timers # {}
  /\ status # EmptyMap
  /\ domains # EmptyMap

\* the step handles a detections post of the older server
MergeStep ==
  /\ request'.op = "merge"
  /\ response'.op = "merge"
  /\ (request' # request \/ response' # response \/ domains' # domains)

\* a count that is a number and not negative
NonNegative(count) == count.k = "num" /\ count.n >= 0

\* C35: in the older server a detections post whose body is an object is
\* answered 200 whatever its entries, and applies each entry on its own:
\* an entry whose count is a number >= 0 sets the domain's population, any
\* other entry leaves the domain as it was, a domain absent from the
\* payload keeps its population, and no domain is removed; every stored
\* population is a non-negative number.
C35_MergePerEntry ==
  /\ [][(MergeStep /\ request'.isJson /\ request'.body.kind = "object") =>
          LET counts == request'.body.counts
          IN  /\ response'.code = 200
              /\ DOMAIN domains \subseteq DOMAIN domains'
              /\ \A d \in DOMAIN domains' :
                   IF d \in DOMAIN counts /\ NonNegative(counts[d])
                   THEN domains'[d] = counts[d]
                   ELSE d \in DOMAIN domains /\ domains'[d] = domains[d]
              /\ \A d \in DOMAIN counts :
                   NonNegative(counts[d]) => d \in DOMAIN domains']_vars
  /\ [][DOMAIN domains \subseteq DOMAIN domains']_vars
  /\ [](\A d \in DOMAIN domains : NonNegative(domains[d]))

C35_Witness ==
  /\ request.op = "merge"
  /\ response.code = 200
  /\ DOMAIN request.body.counts = Names
  /\ DOMAIN domains = Names
  /\ request.body.counts[<<"a">>] = Num(-1, 1)
  /\ request.body.counts[<<"b", ".">>] = Num(0, 1)
  /\ domains[<<"a">>] = Num(1, 1)
  /\ domains[<<"b", ".">>] = Num(0, 1)

\* getFanPower()
getFanPower == response.fan_power

\* C36: setFanPower with a non-NaN power stores and returns the power
\* clamped to [0, 1] and drives the fan with the duty of that value; with a
\* NaN power it stores NaN, which getFanPower then reports, drives the fan
\* at 0 and returns 0.
C36_SetFanPower ==
  response.op = "setFanPower" =>
    LET power == request.power
    IN  IF power.k = "nan"
        THEN /\ getFanPower.k = "nan"
             /\ response.pwm = 0
             /\ response.returned = Num(0, 1)
        ELSE /\ getFanPower.k = "num"
             /\ Le(Num(0, 1), getFanPower) /\ Le(getFanPower, Num(1, 1))
             /\ Le(power, Num(0, 1)) => getFanPower = Num(0, 1)
             /\ Ge(power, Num(1, 1)) => getFanPower = Num(1, 1)
             /\ (Lt(Num(0, 1), power) /\ Lt(power, Num(1, 1))) =>
                  getFanPower = power
             /\ response.returned = getFanPower
             /\ response.pwm \in 0..PwmFull
             /\ response.pwm * getFanPower.d <= PwmFull * getFanPower.n
             /\ PwmFull * getFanPower.n < (response.pwm + 1) * getFanPower.d

C36_Witness ==
  /\ request.op = "setFanPower"
  /\ request.power = NaN
  /\ request.before = Num(3, 4)
  /\ getFanPower = NaN
  /\ response.pwm = 0
  /\ response.returned = Num(0, 1)

====
